---------------------------- MODULE Spec2Model ----------------------------
(***************************************************************************)
(* Model of examples/simple_gsheets/complete_flow.py: the Prefect flow     *)
(* gsheets_flow and the task deploy_primitive_if_needed.                   *)
(*                                                                         *)
(* The flow body runs sequentially; every task it submits (.submit) runs   *)
(* concurrently with the body and with the other submitted tasks, and      *)
(* starts only when the futures it was given (as arguments or in wait_for) *)
(* are resolved.  When such an upstream future did not complete, the task  *)
(* is not run and ends NotReady.  A task called directly (normalize_source)*)
(* runs inside the body and its exception leaves the body.                 *)
(***************************************************************************)
EXTENDS Integers, Sequences, FiniteSets, TLC

(***************************************************************************)
(* Bounds of the data the model draws its inputs from.                     *)
(***************************************************************************)
MaxTs == 2
MaxRecs == 2
MaxExisting == 1

(***************************************************************************)
(* Data model.  A source_type string "<provider>:<locator>" is the tuple   *)
(* of its ":"-separated segments, so that split(":") and                   *)
(* startswith("gsheets:") are computed on it and not assumed.              *)
(***************************************************************************)
StreamIds == {"r1", "r2"}
SourceIds == {"s1", "s2"}
Locators == {"A", "B"}
NotAFrame == [raises |-> TRUE, rows |-> <<>>]
Frame(rows) == [raises |-> FALSE, rows |-> rows]
NoRecords == "none"
Values == {1, 2}

TsnRecord == [timestamp : 1..MaxTs, value : Values, source_id : SourceIds]

Row(st, stream, src) == [source_type |-> st, stream_id |-> stream, source_id |-> src]

CatalogRows ==
    { Row(<<"gsheets", "A">>, "r1", "s1"),
      Row(<<"gsheets", "A">>, "r1", "s2"),
      Row(<<"gsheets", "B">>, "r2", "s1"),
      Row(<<"csv", "C">>, "r2", "s2") }

SeqsUpTo(S, n) == UNION {[1..k -> S] : k \in 0..n}

Range(s) == {s[i] : i \in 1..Len(s)}

Frames == SeqsUpTo(TsnRecord, MaxRecs)

ExistingSets == {E \in SUBSET TsnRecord : Cardinality(E) <= MaxExisting}

(***************************************************************************)
(* Raw sheets: what `records` stands for when it is handed to              *)
(* normalize_source.  A raw row has the columns Year, Month, Value and ID  *)
(* as the sheet holds them, texts that may or may not parse.               *)
(***************************************************************************)
MonthNames == <<"Jan", "Feb", "Mar", "Apr">>
ValueTexts == <<"1", "2">>

MonthTexts == {MonthNames[i] : i \in 1..MaxTs} \cup {"Foo"}
RawValues == Range(ValueTexts) \cup {"x"}

RawRow == [Year : {"2024"}, Month : MonthTexts, Value : RawValues, ID : SourceIds]

NoSheet == [frame |-> FALSE, rows |-> <<>>]
Sheet(rows) == [frame |-> TRUE, rows |-> rows]

RawSheets == {Sheet(rows) : rows \in SeqsUpTo(RawRow, MaxRecs)}

\* the raw sheet whose rows normalize to the records f
AsSheet(f) ==
    Sheet([i \in 1..Len(f) |->
            [Year |-> "2024", Month |-> MonthNames[f[i].timestamp],
             Value |-> ValueTexts[f[i].value], ID |-> f[i].source_id]])

VARIABLES
    repo_csv,      \* the catalog file in the repository
    sheet,         \* per locator: the raw sheet `records` stands for
    dest,          \* the destination store: per stream its state and records
    flowpc,        \* position of the body of gsheets_flow
    sources_df,    \* line 36
    gsheets_ids,   \* line 45
    gi,            \* outer loop index (line 58)
    ri,            \* inner loop index (line 66)
    records,       \* line 62
    branches,      \* one entry per inner iteration: its four task runs
    insert_jobs,   \* line 53, 87: indexes into branches
    result,        \* final state of the flow run
    catalog_error  \* history: read_repo_csv_file (line 36) raised

vars == <<repo_csv, sheet, dest, flowpc, sources_df, gsheets_ids, gi, ri,
          records, branches, insert_jobs, result, catalog_error>>

flow_vars == <<flowpc, sources_df, gsheets_ids, gi, ri, records, insert_jobs, result,
               catalog_error>>
env_vars == <<repo_csv, sheet>>

(***************************************************************************)
(* Lines 41-49: unique source types in order of first appearance, then the *)
(* locator of every one that starts with "gsheets:".                       *)
(***************************************************************************)
RECURSIVE Unique(_)
Unique(s) ==
    IF s = <<>> THEN <<>>
    ELSE LET front == Unique(SubSeq(s, 1, Len(s) - 1))
             last == s[Len(s)]
         IN IF last \in Range(front) THEN front ELSE Append(front, last)

StartsWithGsheets(source_type) ==
    Len(source_type) >= 2 /\ source_type[1] = "gsheets"

SourceTypes(df) == Unique([i \in 1..Len(df) |-> df[i].source_type])

RECURSIVE GsheetsIds(_)
GsheetsIds(source_types) ==
    IF source_types = <<>> THEN <<>>
    ELSE LET rest == GsheetsIds(Tail(source_types))
             st == Head(source_types)
         IN IF StartsWithGsheets(st) THEN <<st[2]>> \o rest ELSE rest

(***************************************************************************)
(* Collaborators of the flow (tsn_adapters.tasks, examples.utils).         *)
(***************************************************************************)
Key(r) == <<r.timestamp, r.source_id>>
Keys(S) == {Key(r) : r \in S}

filter_by_source_id(recs, source_id) ==
    SelectSeq(recs, LAMBDA r : r.source_id = source_id)

prepare_records_for_tsn(recs) ==
    [i \in 1..Len(recs) |->
        [timestamp |-> recs[i].timestamp, value |-> recs[i].value,
         source_id |-> recs[i].source_id]]

reconcile_data(existing, candidates) ==
    SelectSeq(candidates, LAMBDA c : Key(c) \notin Keys(existing))

(***************************************************************************)
(* Task run states.                                                        *)
(***************************************************************************)
FinalStates == {"Completed", "Failed", "NotReady"}
NotCompleted == {"Failed", "NotReady"}

NewBranch(g, r, row) ==
    [gsheets_id |-> g, row_index |-> r, row |-> row,
     deploy |-> "Pending", read |-> "none", reconcile |-> "none", insert |-> "none",
     client_error |-> "none", calls |-> <<>>,
     prepared |-> <<>>, existing |-> {}, reconciled |-> <<>>, inserted |-> <<>>]

BranchIds == 1..Len(branches)

TaskFinal(s) == s \in FinalStates \cup {"none"}

BranchFinal(b) ==
    /\ branches[b].deploy \in FinalStates
    /\ TaskFinal(branches[b].read)
    /\ TaskFinal(branches[b].reconcile)
    /\ TaskFinal(branches[b].insert)

AllTasksFinal == \A b \in BranchIds : BranchFinal(b)

(***************************************************************************)
(* Init: the flow has not started; the environment is drawn from small     *)
(* sets.  Locators and streams the catalog does not name keep a fixed      *)
(* value.                                                                  *)
(***************************************************************************)
SmallFrames == {<<[timestamp |-> 1, value |-> 1, source_id |-> "s1"]>>}

UsedLocators(cat) == Range(GsheetsIds(SourceTypes(cat)))
UsedStreams(cat) == {cat[i].stream_id : i \in 1..Len(cat)}

\* Catalogs of up to two rows.  A catalog naming two sheets makes four
\* branches (line 58 x line 66), by far the largest runs: one such catalog
\* is kept, the other two-row catalogs name at most one sheet.
Catalogs ==
    {<<>>} \cup {<<r>> : r \in CatalogRows}
           \cup {c \in {<<r, q>> : r \in CatalogRows, q \in CatalogRows} :
                    \/ Cardinality(UsedLocators(c)) <= 1
                    \/ c = <<Row(<<"gsheets", "A">>, "r1", "s1"),
                             Row(<<"gsheets", "B">>, "r2", "s1")>>}

AbsentStream == [state |-> "absent", records |-> {}]

FlowIdle ==
    /\ flowpc = "read_repo_csv_file"
    /\ sources_df = <<>>
    /\ gsheets_ids = <<>>
    /\ gi = 0
    /\ ri = 0
    /\ records = NoRecords
    /\ branches = <<>>
    /\ insert_jobs = <<>>
    /\ result = "Running"
    /\ catalog_error = FALSE

Init ==
    /\ repo_csv \in Catalogs
    /\ sheet \in [Locators -> {AsSheet(f) : f \in SmallFrames} \cup {NoSheet}]
    /\ \A g \in Locators \ UsedLocators(repo_csv) : sheet[g] = NoSheet
    /\ dest \in [StreamIds -> {AbsentStream, [state |-> "initialized", records |-> {}]}]
    /\ \A s \in StreamIds \ UsedStreams(repo_csv) : dest[s] = AbsentStream
    /\ FlowIdle

(***************************************************************************)
(* The body of gsheets_flow.                                               *)
(***************************************************************************)
\* line 36 inside a try whose handler goes on with the frame left unread
OnCatalogErrorIgnored == "plan"

\* line 36 is not inside a try: the exception leaves the body
OnCatalogError == "raised"

\* line 36: read_repo_csv_file, called directly
FlowReadCatalog ==
    /\ flowpc = "read_repo_csv_file"
    /\ \/ /\ sources_df' = repo_csv
          /\ flowpc' = "plan"
          /\ UNCHANGED catalog_error
       \/ /\ flowpc' = OnCatalogError
          /\ catalog_error' = TRUE
          /\ UNCHANGED sources_df
    /\ UNCHANGED <<env_vars, dest, gsheets_ids, gi, ri, records, branches,
                   insert_jobs, result>>

\* lines 41-56
FlowPlan ==
    /\ flowpc = "plan"
    /\ gsheets_ids' = GsheetsIds(SourceTypes(sources_df))
    /\ insert_jobs' = <<>>
    /\ gi' = 1
    /\ flowpc' = IF gsheets_ids' = <<>> THEN "wait" ELSE "next_sheet"
    /\ UNCHANGED <<env_vars, catalog_error, dest, sources_df, ri, records, branches, result>>

\* lines 58-62: records = (gsheets_id)
FlowNextSheet ==
    /\ flowpc = "next_sheet"
    /\ records' = gsheets_ids[gi]
    /\ ri' = 1
    /\ flowpc' = IF sources_df = <<>> THEN "end_of_rows" ELSE "submit_deploy"
    /\ UNCHANGED <<env_vars, catalog_error, dest, sources_df, gsheets_ids, gi, branches,
                   insert_jobs, result>>

\* lines 66-68: deploy_primitive_if_needed.submit(row["stream_id"], client)
FlowSubmitDeploy ==
    /\ flowpc = "submit_deploy"
    /\ branches' = Append(branches, NewBranch(gsheets_ids[gi], ri, sources_df[ri]))
    /\ flowpc' = "build_branch"
    /\ UNCHANGED <<env_vars, catalog_error, dest, sources_df, gsheets_ids, gi, ri, records,
                   insert_jobs, result>>

(***************************************************************************)
(* Line 71: normalize_source(records), called directly.  Line 62 binds     *)
(* `records` to the locator itself (read_gsheet is imported and never      *)
(* called), so the argument is the locator.  What the locator stands for   *)
(* is an input of the model (sheet), fixed per run.  With the str that     *)
(* line 62 binds, df.copy() raises (NoSheet); the runs in which the        *)
(* argument is a frame of raw rows are admitted as well, so that what      *)
(* normalize_source and the flow do after line 71 is covered.              *)
(*                                                                         *)
(* normalize_source (lines 105-121) converts whole columns:                *)
(* pd.to_datetime (line 112) and astype(float) (line 113) raise when any   *)
(* element of the column does not parse, and nothing catches that.  A      *)
(* parse yields 0 for a text that does not parse.                          *)
(***************************************************************************)
\* line 112: pd.to_datetime(Year + ' ' + Month + ' 1'), as a timestamp
to_datetime(year, month) ==
    IF \E i \in 1..Len(MonthNames) : MonthNames[i] = month
    THEN CHOOSE i \in 1..Len(MonthNames) : MonthNames[i] = month
    ELSE 0

\* line 113: astype(float)
astype_float(text) ==
    IF \E v \in 1..Len(ValueTexts) : ValueTexts[v] = text
    THEN CHOOSE v \in 1..Len(ValueTexts) : ValueTexts[v] = text
    ELSE 0

\* lines 112-119 for one row
NormalizedRow(r) ==
    [timestamp |-> to_datetime(r.Year, r.Month), value |-> astype_float(r.Value),
     source_id |-> r.ID]

\* both conversions accept the row
Parses(r) == to_datetime(r.Year, r.Month) # 0 /\ astype_float(r.Value) # 0

\* lines 112-113: each column is converted as a whole
ColumnsParse(rows) == \A i \in 1..Len(rows) : Parses(rows[i])

normalize_source(df) ==
    LET inputs == sheet[df]
    IN IF ~inputs.frame THEN NotAFrame
       ELSE IF ~ColumnsParse(inputs.rows) THEN NotAFrame
       ELSE Frame([i \in 1..Len(inputs.rows) |-> NormalizedRow(inputs.rows[i])])

\* line 80 without wait_for: the read depends on nothing
ReadUpstreamNoWaitFor(b) == "Completed"

\* line 80: wait_for=[deployment_job]
ReadUpstream(b) == branches[b].deploy

\* line 83: reconcile_data.submit(existing_records, prepared_records)
ReconcileUpstream(b) == branches[b].read

\* line 86 given a plain value instead of the future of line 83
InsertUpstreamPlainValue(b) == "Completed"
\* line 86 given prepared_records instead of reconciled_records
InsertRecordsPrepared(b) == branches[b].prepared

\* line 86 given another stream than the one line 80 read
InsertStreamOther(b) == CHOOSE s \in StreamIds : s # branches[b].row.stream_id

\* line 86: insert_tsn_records.submit(row["stream_id"], reconciled_records, client)
InsertUpstream(b) == branches[b].reconcile
InsertRecords(b) == branches[b].reconciled
InsertStream(b) == branches[b].row.stream_id

AfterRow ==
    IF ri < Len(sources_df) THEN "submit_deploy"
    ELSE "end_of_rows"

\* lines 71-87
FlowBuildBranch ==
    /\ flowpc = "build_branch"
    /\ LET b == Len(branches)
           row == branches[b].row
           normalized_records == normalize_source(records)
       IN IF normalized_records.raises
          THEN /\ flowpc' = "raised"
               /\ UNCHANGED <<branches, insert_jobs, ri>>
          ELSE LET filtered_records == filter_by_source_id(normalized_records.rows, row.source_id)
                   prepared_records == prepare_records_for_tsn(filtered_records)
               IN /\ branches' = [branches EXCEPT ![b].prepared = prepared_records,
                                                  ![b].read = "Pending",
                                                  ![b].reconcile = "Pending",
                                                  ![b].insert = "Pending"]
                  /\ insert_jobs' = Append(insert_jobs, b)
                  /\ flowpc' = AfterRow
                  /\ ri' = IF ri < Len(sources_df) THEN ri + 1 ELSE ri
    /\ UNCHANGED <<env_vars, catalog_error, dest, sources_df, gsheets_ids, gi, records, result>>

\* line 58: the outer loop advances or ends
FlowEndOfRows ==
    /\ flowpc = "end_of_rows"
    /\ IF gi < Len(gsheets_ids)
       THEN gi' = gi + 1 /\ flowpc' = "next_sheet"
       ELSE gi' = gi /\ flowpc' = "wait"
    /\ UNCHANGED <<env_vars, catalog_error, dest, sources_df, gsheets_ids, ri, records, branches,
                   insert_jobs, result>>

\* line 90 waiting for the last job only
WaitLastJobOnly ==
    insert_jobs # <<>> => branches[insert_jobs[Len(insert_jobs)]].insert \in FinalStates

\* line 90: wait(insert_jobs)
WaitDone == \A i \in 1..Len(insert_jobs) : branches[insert_jobs[i]].insert \in FinalStates

FlowWait ==
    /\ flowpc = "wait"
    /\ WaitDone
    /\ flowpc' = "body_done"
    /\ UNCHANGED <<env_vars, catalog_error, dest, sources_df, gsheets_ids, gi, ri, records,
                   branches, insert_jobs, result>>

(***************************************************************************)
(* Lines 12-13: the @flow wrapper.  The call returns to its caller after   *)
(* the body has ended and the task runner has shut down, which joins the   *)
(* task runs already submitted.  The run is Completed when the body        *)
(* returned (it returns None) and Failed when an exception left it.        *)
(***************************************************************************)
RunnerShutdown == AllTasksFinal

FlowResult == IF flowpc = "body_done" THEN "Completed" ELSE "Failed"

FlowReturn ==
    /\ flowpc \in {"body_done", "raised"}
    /\ RunnerShutdown
    /\ result' = FlowResult
    /\ flowpc' = "returned"
    /\ UNCHANGED <<env_vars, catalog_error, dest, sources_df, gsheets_ids, gi, ri, records,
                   branches, insert_jobs>>

(***************************************************************************)
(* deploy_primitive_if_needed (lines 92-103), one client call per step.    *)
(***************************************************************************)
StreamOf(b) == branches[b].row.stream_id

\* line 96 with the test inverted
stream_exists_inverted(stream_id) == dest[stream_id].state = "absent"

\* line 95
stream_exists(stream_id) == dest[stream_id].state # "absent"

\* lines 95-96, 102-103; `calls` is the history of the task run's client calls
DeployCheckExists(b) ==
    /\ branches[b].deploy = "Pending"
    /\ branches' = [branches EXCEPT
                        ![b].deploy =
                            IF stream_exists(StreamOf(b)) THEN "Completed" ELSE "absent",
                        ![b].calls =
                            IF dest[StreamOf(b)].state # "absent"
                            THEN <<"stream_exists:yes">> ELSE <<"stream_exists:no">>]
    /\ UNCHANGED <<env_vars, dest, flow_vars>>

\* line 98: deploy_stream(stream_id, wait=True) is issued
DeployIssueCreate(b) ==
    /\ branches[b].deploy = "absent"
    /\ branches' = [branches EXCEPT ![b].deploy = "deploying",
                                    ![b].calls = Append(@, "deploy_stream")]
    /\ UNCHANGED <<env_vars, dest, flow_vars>>

\* line 100 left out: the task ends once the create call is acknowledged
OnCreateAckDone == "Completed"

\* lines 99-100: after the acknowledged create call the initialize call is issued
OnCreateAck == "initializing"

\* a client error swallowed by the task
OnClientErrorSwallowed == "Completed"

\* what the task run becomes when a client call raises: @task has no retries
OnClientError == "Failed"

\* line 98 returns; line 100: init_stream(stream_id, wait=True) is issued
DeployCreateReturns(b) ==
    /\ branches[b].deploy = "deploying"
    /\ \/ /\ branches' = [branches EXCEPT
                              ![b].deploy = OnCreateAck,
                              ![b].calls = @ \o <<"deploy_stream:ack", "init_stream">>]
          /\ dest' = [dest EXCEPT ![StreamOf(b)].state =
                         IF @ = "absent" THEN "deployed" ELSE @]
       \/ /\ branches' = [branches EXCEPT ![b].deploy = OnClientError,
                                          ![b].client_error = "deploy_stream"]
          /\ UNCHANGED dest
    /\ UNCHANGED <<env_vars, flow_vars>>

\* line 100 returns
DeployInitReturns(b) ==
    /\ branches[b].deploy = "initializing"
    /\ \/ /\ branches' = [branches EXCEPT ![b].deploy = "Completed",
                                          ![b].calls = Append(@, "init_stream:ack")]
          /\ dest' = [dest EXCEPT ![StreamOf(b)].state = "initialized"]
       \/ /\ branches' = [branches EXCEPT ![b].deploy = OnClientError,
                                          ![b].client_error = "init_stream"]
          /\ UNCHANGED dest
    /\ UNCHANGED <<env_vars, flow_vars>>

(***************************************************************************)
(* get_all_tsn_records, reconcile_data, insert_tsn_records as task runs.   *)
(***************************************************************************)
ReadExisting(b) ==
    /\ branches[b].read = "Pending"
    /\ ReadUpstream(b) = "Completed"
    /\ \/ branches' = [branches EXCEPT ![b].read = "Completed",
                                       ![b].existing = dest[StreamOf(b)].records]
       \/ branches' = [branches EXCEPT ![b].read = "Failed"]
    /\ UNCHANGED <<env_vars, dest, flow_vars>>

ReadNotReady(b) ==
    /\ branches[b].read = "Pending"
    /\ ReadUpstream(b) \in NotCompleted
    /\ branches' = [branches EXCEPT ![b].read = "NotReady"]
    /\ UNCHANGED <<env_vars, dest, flow_vars>>

Reconcile(b) ==
    /\ branches[b].reconcile = "Pending"
    /\ ReconcileUpstream(b) = "Completed"
    /\ branches' = [branches EXCEPT
                        ![b].reconcile = "Completed",
                        ![b].reconciled = reconcile_data(branches[b].existing,
                                                         branches[b].prepared)]
    /\ UNCHANGED <<env_vars, dest, flow_vars>>

ReconcileNotReady(b) ==
    /\ branches[b].reconcile = "Pending"
    /\ ReconcileUpstream(b) \in NotCompleted
    /\ branches' = [branches EXCEPT ![b].reconcile = "NotReady"]
    /\ UNCHANGED <<env_vars, dest, flow_vars>>

Insert(b) ==
    /\ branches[b].insert = "Pending"
    /\ InsertUpstream(b) = "Completed"
    /\ \/ /\ branches' = [branches EXCEPT ![b].insert = "Completed",
                                          ![b].inserted = InsertRecords(b)]
          /\ dest' = [dest EXCEPT ![InsertStream(b)].records = @ \cup Range(InsertRecords(b))]
       \/ /\ branches' = [branches EXCEPT ![b].insert = "Failed",
                                          ![b].inserted = InsertRecords(b)]
          /\ UNCHANGED dest
    /\ UNCHANGED <<env_vars, flow_vars>>

InsertNotReady(b) ==
    /\ branches[b].insert = "Pending"
    /\ InsertUpstream(b) \in NotCompleted
    /\ branches' = [branches EXCEPT ![b].insert = "NotReady"]
    /\ UNCHANGED <<env_vars, dest, flow_vars>>

Next ==
    \/ FlowReadCatalog
    \/ FlowPlan
    \/ FlowNextSheet
    \/ FlowSubmitDeploy
    \/ FlowBuildBranch
    \/ FlowEndOfRows
    \/ FlowWait
    \/ FlowReturn
    \/ \E b \in BranchIds : DeployCheckExists(b)
    \/ \E b \in BranchIds : DeployIssueCreate(b)
    \/ \E b \in BranchIds : DeployCreateReturns(b)
    \/ \E b \in BranchIds : DeployInitReturns(b)
    \/ \E b \in BranchIds : ReadExisting(b)
    \/ \E b \in BranchIds : ReadNotReady(b)
    \/ \E b \in BranchIds : Reconcile(b)
    \/ \E b \in BranchIds : ReconcileNotReady(b)
    \/ \E b \in BranchIds : Insert(b)
    \/ \E b \in BranchIds : InsertNotReady(b)

Spec == Init /\ [][Next]_vars

(***************************************************************************)
(* The same flow over one catalog entry, with the sheet's records and the  *)
(* destination's existing records drawn from all bounded values: the       *)
(* specification for the claims about the data a branch reads, reconciles  *)
(* and writes.                                                             *)
(***************************************************************************)
InitData ==
    /\ repo_csv = <<Row(<<"gsheets", "A">>, "r1", "s1")>>
    /\ sheet \in [Locators -> {AsSheet(f) : f \in Frames} \cup {NoSheet}]
    /\ sheet["B"] = NoSheet
    /\ dest \in [StreamIds -> {AbsentStream} \cup
                    {[state |-> "initialized", records |-> E] : E \in ExistingSets}]
    /\ dest["r2"] = AbsentStream
    /\ FlowIdle

SpecData == InitData /\ [][Next]_vars

(***************************************************************************)
(* The same flow over one catalog entry whose sheet is drawn from all      *)
(* bounded raw sheets, rows that do not parse included: the specification  *)
(* for the claims about normalize_source.                                  *)
(***************************************************************************)
InitNormalize ==
    /\ repo_csv = <<Row(<<"gsheets", "A">>, "r1", "s1")>>
    /\ sheet \in [Locators -> RawSheets \cup {NoSheet}]
    /\ sheet["B"] = NoSheet
    /\ dest \in [StreamIds -> {AbsentStream, [state |-> "initialized", records |-> {}]}]
    /\ dest["r2"] = AbsentStream
    /\ FlowIdle

SpecNormalize == InitNormalize /\ [][Next]_vars

(***************************************************************************)
(* The flow with client calls that may never return.  The client calls of  *)
(* the task runs (stream_exists, deploy_stream and init_stream with        *)
(* wait=True, get_all_tsn_records, insert_tsn_records) are made without a  *)
(* timeout, and wait(insert_jobs) at line 90 is given none: a task run     *)
(* whose call never returns stays where it is ("Hung") and never reaches a *)
(* final state.                                                            *)
(***************************************************************************)
ClientCallHangs(b) ==
    /\ \/ /\ branches[b].deploy \in {"Pending", "deploying", "initializing"}
          /\ branches' = [branches EXCEPT ![b].deploy = "Hung"]
       \/ /\ branches[b].read = "Pending"
          /\ ReadUpstream(b) = "Completed"
          /\ branches' = [branches EXCEPT ![b].read = "Hung"]
       \/ /\ branches[b].insert = "Pending"
          /\ InsertUpstream(b) = "Completed"
          /\ branches' = [branches EXCEPT ![b].insert = "Hung"]
    /\ UNCHANGED <<env_vars, dest, flow_vars>>

NextHang ==
    \/ Next
    \/ \E b \in BranchIds : ClientCallHangs(b)

InitHang ==
    /\ Init
    /\ Cardinality(UsedLocators(repo_csv)) <= 1

SpecHang == InitHang /\ [][NextHang]_vars

(***************************************************************************)
(* Properties.                                                             *)
(***************************************************************************)
Ran(s) == s \in {"Completed", "Failed"}

SupportedRows(df) == {i \in 1..Len(df) : StartsWithGsheets(df[i].source_type)}

BranchFailed(b) ==
    \/ branches[b].deploy \in NotCompleted
    \/ branches[b].read \in NotCompleted
    \/ branches[b].reconcile \in NotCompleted
    \/ branches[b].insert \in NotCompleted

\* C1: in every branch the destination read has run only if the ensure-ready
\* task of that branch completed and the stream exists at the destination.
C1_ReadAfterEnsureReady ==
    \A b \in BranchIds :
        Ran(branches[b].read) =>
            /\ branches[b].deploy = "Completed"
            /\ stream_exists(StreamOf(b))

\* a branch has read its initialized stream while the ensure-ready of another
\* branch is still at work
C1_Witness ==
    \E b, c \in BranchIds :
        /\ b # c
        /\ branches[b].read = "Completed"
        /\ branches[b].client_error = "none"
        /\ dest[StreamOf(b)].state = "initialized"
        /\ branches[c].deploy \in {"absent", "deploying", "initializing"}

\* C2: in every branch the write has run only after the read returned and the
\* reconciliation of the computed candidates completed; the reconciliation
\* only after the read; the read only after ensure-ready.
C2_BranchOrder ==
    \A b \in BranchIds :
        /\ Ran(branches[b].insert) =>
              /\ branches[b].read = "Completed"
              /\ branches[b].reconcile = "Completed"
              /\ branches[b].deploy = "Completed"
        /\ branches[b].reconcile = "Completed" => branches[b].read = "Completed"
        /\ Ran(branches[b].read) => branches[b].deploy = "Completed"

\* a later branch has written while an earlier branch has not begun
C2_Witness ==
    \E b, c \in BranchIds :
        /\ c < b
        /\ branches[b].insert = "Completed"
        /\ branches[b].inserted # <<>>
        /\ branches[c].deploy = "Pending"

\* C3: once the body is past its wait, and when the call has returned, no
\* task run of any branch is pending or running.
C3_JoinBarrier ==
    flowpc \in {"body_done", "returned"} => AllTasksFinal

\* the call has returned with one branch written and another failed
C3_Witness ==
    /\ flowpc = "returned"
    /\ result = "Completed"
    /\ \E b, c \in BranchIds :
        /\ branches[b].insert = "Completed"
        /\ branches[c].insert \in NotCompleted

\* C4: when the call has returned, every (locator, catalog row) pair other
\* than a branch that itself failed has a branch that ran to its end.
C4_BranchIsolation ==
    flowpc = "returned" =>
        \A i \in 1..Len(gsheets_ids), r \in 1..Len(sources_df) :
            \E b \in BranchIds :
                /\ branches[b].gsheets_id = gsheets_ids[i]
                /\ branches[b].row_index = r
                /\ BranchFinal(b)

C7_ProvisioningFatal ==
    /\ [](\A b \in BranchIds :
            branches[b].client_error # "none" =>
                /\ branches[b].deploy = "Failed"
                /\ ~Ran(branches[b].read)
                /\ branches[b].reconcile # "Completed"
                /\ ~Ran(branches[b].insert))
    /\ [][\A b \in BranchIds :
            branches[b].deploy = "Failed" =>
                /\ branches'[b].deploy = "Failed"
                /\ branches'[b].client_error = branches[b].client_error]_vars

\* one branch ended failed on a client error while another branch wrote
C7_Witness ==
    /\ flowpc = "returned"
    /\ \E b, c \in BranchIds :
        /\ branches[b].client_error = "init_stream"
        /\ branches[b].insert = "NotReady"
        /\ branches[c].insert = "Completed"

\* C8: no branch exists for a catalog row with an unsupported provider.
C8_OnlySupportedProcessed ==
    \A b \in BranchIds : StartsWithGsheets(branches[b].row.source_type)

Count(s, x) == Cardinality({i \in 1..Len(s) : s[i] = x})

IsSubsequence(w, c) ==
    \E f \in [1..Len(w) -> 1..Len(c)] :
        /\ \A i \in 1..Len(w) : w[i] = c[f[i]]
        /\ \A i, j \in 1..Len(w) : i < j => f[i] < f[j]

C10_KeyExclusion ==
    \A b \in BranchIds :
        Ran(branches[b].insert) =>
            LET existing == branches[b].existing
                candidates == branches[b].prepared
                written == branches[b].inserted
            IN /\ \A i \in 1..Len(written) : Key(written[i]) \notin Keys(existing)
               /\ \A c \in Range(candidates) :
                    Key(c) \notin Keys(existing) => Count(written, c) = Count(candidates, c)
               /\ \A c \in Range(candidates) :
                    Key(c) \in Keys(existing) => Count(written, c) = 0
               /\ IsSubsequence(written, candidates)

\* a branch wrote one of two candidates; the other one's key existed with a
\* different value
C10_Witness ==
    \E b \in BranchIds :
        /\ branches[b].insert = "Completed"
        /\ Len(branches[b].prepared) = 2
        /\ Len(branches[b].inserted) = 1
        /\ \E e \in branches[b].existing :
            /\ Key(e) = Key(branches[b].prepared[1])
            /\ e.value # branches[b].prepared[1].value

\* C11: once a branch has written, reconciling the same candidates against
\* what the branch read united with what it wrote, and against the stream as
\* the write left it, yields nothing to write.
C11_IdempotentReconcile ==
    \A b \in BranchIds :
        branches[b].insert = "Completed" =>
            /\ reconcile_data(branches[b].existing \cup Range(branches[b].inserted),
                              branches[b].prepared) = <<>>
            /\ reconcile_data(dest[StreamOf(b)].records, branches[b].prepared) = <<>>

\* a branch wrote a new record to a stream that already held one
C11_Witness ==
    \E b \in BranchIds :
        /\ branches[b].insert = "Completed"
        /\ branches[b].inserted # <<>>
        /\ branches[b].existing # {}

C13_ResourceIdempotency ==
    /\ [](\A b \in BranchIds :
            (Len(branches[b].calls) > 0 /\ branches[b].calls[1] = "stream_exists:yes") =>
                /\ branches[b].calls = <<"stream_exists:yes">>
                /\ branches[b].deploy = "Completed")
    /\ [][\A b \in BranchIds :
            (/\ branches[b].deploy = "Pending"
             /\ branches'[b].deploy # "Pending"
             /\ dest[StreamOf(b)].state = "initialized") =>
                /\ branches'[b].deploy = "Completed"
                /\ branches'[b].calls = <<"stream_exists:yes">>
                /\ dest' = dest]_vars

\* two ensure-ready runs for one initialized stream have completed, the later
\* one after the earlier one, and neither issued a call beyond the check
C13_Witness ==
    \E b, c \in BranchIds :
        /\ b < c
        /\ StreamOf(b) = StreamOf(c)
        /\ branches[b].calls = <<"stream_exists:yes">>
        /\ branches[c].calls = <<"stream_exists:yes">>
        /\ branches[b].insert = "Completed"
        /\ dest[StreamOf(b)].state = "initialized"

\* C17: the client calls of every ensure-ready task run follow the lifecycle:
\* the existence check first; on yes nothing more and the run completes; on no
\* the create call, then after its acknowledgement the initialize call, and
\* the run completes only after the initialize call is acknowledged.
LifecycleCalls(state, error) ==
    CASE state = "Pending" -> {<<>>}
      [] state = "absent" -> {<<"stream_exists:no">>}
      [] state = "deploying" -> {<<"stream_exists:no", "deploy_stream">>}
      [] state = "initializing" ->
            {<<"stream_exists:no", "deploy_stream", "deploy_stream:ack", "init_stream">>}
      [] state = "Completed" ->
            {<<"stream_exists:yes">>,
             <<"stream_exists:no", "deploy_stream", "deploy_stream:ack", "init_stream",
               "init_stream:ack">>}
      [] state = "Failed" /\ error = "deploy_stream" ->
            {<<"stream_exists:no", "deploy_stream">>}
      [] state = "Failed" /\ error = "init_stream" ->
            {<<"stream_exists:no", "deploy_stream", "deploy_stream:ack", "init_stream">>}
      [] OTHER -> {}

C17_Lifecycle ==
    \A b \in BranchIds :
        /\ branches[b].calls \in LifecycleCalls(branches[b].deploy, branches[b].client_error)
        /\ \A i \in 1..Len(branches[b].calls) :
              branches[b].calls[i] = "init_stream" =>
                  /\ i > 1
                  /\ branches[b].calls[i - 1] = "deploy_stream:ack"
                  /\ dest[StreamOf(b)].state # "absent"

\* one run went through create and initialize, another found the stream
C17_Witness ==
    \E b, c \in BranchIds :
        /\ branches[b].deploy = "Completed"
        /\ Len(branches[b].calls) = 5
        /\ branches[c].calls = <<"stream_exists:yes">>
        /\ StreamOf(b) = StreamOf(c)

\* C19: for every stream, the task runs of one flow run issue at most one
\* create call and at most one initialize call.
Issued(stream_id, call) ==
    {b \in BranchIds : StreamOf(b) = stream_id /\ call \in Range(branches[b].calls)}

C16_CatalogErrorAborts ==
    catalog_error =>
        /\ flowpc \in {"raised", "returned"}
        /\ branches = <<>>
        /\ insert_jobs = <<>>
        /\ gsheets_ids = <<>>
        /\ records = NoRecords
        /\ flowpc = "returned" => result = "Failed"

\* the catalog named a supported entry, its read failed and the run is over
C16_Witness ==
    /\ catalog_error
    /\ flowpc = "returned"
    /\ SupportedRows(repo_csv) # {}

\* C18: when a branch is built, `records` holds rows fetched from the sheet
\* (not the locator itself), and every branch pairs a catalog entry with the
\* locator named by that entry's own source_type.
C18_OwnRowsOnly ==
    /\ flowpc = "build_branch" => records \notin Locators
    /\ \A b \in BranchIds :
          /\ StartsWithGsheets(branches[b].row.source_type)
          /\ branches[b].gsheets_id = branches[b].row.source_type[2]

\* C15: a raw row that does not parse is dropped alone.  Handed a frame of
\* raw rows, normalize_source does not raise (the flow leaves its body at
\* line 71 only when the argument is no frame at all), and the records a
\* branch prepares are the rows that parse, normalized, in input order,
\* filtered by the entry's source id.
C15_RowErrorsContained ==
    /\ (flowpc = "raised" /\ ~catalog_error) => ~sheet[records].frame
    /\ \A b \in BranchIds :
          branches[b].read # "none" =>
              LET rows == SelectSeq(sheet[branches[b].gsheets_id].rows, Parses)
                  kept == [i \in 1..Len(rows) |-> NormalizedRow(rows[i])]
              IN branches[b].prepared =
                     prepare_records_for_tsn(
                         filter_by_source_id(kept, branches[b].row.source_id))

=============================================================================
